---- MODULE Spec2Model ----
(***************************************************************************)
(* BaseViewSet (backend/django/components/base/viewsets/mixin):            *)
(* the central exception classifier handle_exception, the safe lookup      *)
(* wrappers get_queryset / get_object, error_boundary, and the             *)
(* before/perform/after pipelines of the perform_* handlers.               *)
(*                                                                         *)
(* Python values are encoded as follows.                                   *)
(*   None            the empty tuple <<>>; a present value v is <<v>>      *)
(*   an exception    a record: its class, the text it was built with, and  *)
(*                   the attributes the classifier reads                   *)
(*   isinstance      membership of a class in the chain of base classes    *)
(*   a Response      a record of the status and of the fields of the       *)
(*                   payload's "error" object                              *)
(***************************************************************************)
EXTENDS Integers, Sequences, FiniteSets, TLC

VARIABLES
    config,     \* viewset class -> its LOG_REQUESTS / SAFE_DB_ERRORS attributes
    pc,         \* request -> "idle" | "running" | "raised" | "returned" | "responded"
    op,         \* request -> the handler the request runs ("none" when idle)
    pos,        \* request -> index of the next call of the handler's body
    trace,      \* request -> the calls made so far, each with how it ended
    exc,        \* request -> the exception in flight (NoExc when none)
    origin,     \* request -> the exception as first raised by a collaborator or hook
    response,   \* request -> the Response produced (NoResponse when none)
    result,     \* request -> what the handler returned (None when nothing)
    entity,     \* request -> persistence status of the request's subject entity
    local,      \* request -> the value the handler holds (queryset, serializer.data)
    given       \* request -> the arguments success_response was called with

vars == <<config, pc, op, pos, trace, exc, origin, response, result, entity,
          local, given>>

----------------------------------------------------------------------------
(* Bounds of the model. *)

\* Largest number of dependent objects a ProtectedError / RestrictedError carries.
MaxDependents == 11

\* Two requests in flight, each served by its own viewset instance.
Requests == {"r1", "r2"}

None == <<>>
Some(v) == <<v>>

----------------------------------------------------------------------------
(* The exception classes the module imports, and subclasses of them. *)

\* rest_framework.exceptions
DRFClasses ==
    { "APIException", "DRFValidationError", "ParseError", "NotAuthenticated",
      "AuthenticationFailed", "DRFPermissionDenied", "NotFound",
      "MethodNotAllowed", "NotAcceptable", "UnsupportedMediaType", "Throttled",
      "PaymentRequired", "SessionExpired" }

\* django.core.exceptions, django.http
DjangoClasses ==
    { "Http404", "ObjectDoesNotExist", "PostDoesNotExist",
      "MultipleObjectsReturned", "PermissionDenied", "DjangoValidationError",
      "FieldDoesNotExist", "SuspiciousOperation", "DisallowedHost",
      "ImproperlyConfigured" }

\* django.db, django.db.models.deletion
DBClasses ==
    { "Error", "DatabaseError", "IntegrityError",
      "OperationalError", "ProgrammingError", "DataError", "ProtectedError",
      "RestrictedError" }

\* builtins
BuiltinClasses == { "Exception", "ValueError" }

Classes == DRFClasses \cup DjangoClasses \cup DBClasses \cup BuiltinClasses

\* The direct base class of each class.
Base(c) ==
    CASE c \in { "DRFValidationError", "ParseError", "NotAuthenticated",
                 "AuthenticationFailed", "DRFPermissionDenied", "NotFound",
                 "MethodNotAllowed", "NotAcceptable", "UnsupportedMediaType",
                 "Throttled", "PaymentRequired" }
                                        -> "APIException"
      [] c = "SessionExpired"           -> "AuthenticationFailed"
      [] c = "PostDoesNotExist"         -> "ObjectDoesNotExist"
      [] c = "DisallowedHost"           -> "SuspiciousOperation"
      [] c = "DatabaseError"            -> "Error"
      [] c \in { "IntegrityError", "OperationalError", "ProgrammingError",
                 "DataError" }          -> "DatabaseError"
      [] c \in { "ProtectedError", "RestrictedError" }
                                        -> "IntegrityError"
      [] OTHER                          -> "Exception"

\* The class itself and all its base classes.
RECURSIVE Mro(_)
Mro(c) == IF c = "Exception" THEN { c } ELSE { c } \cup Mro(Base(c))

MroOf == [c \in Classes |-> Mro(c)]

\* isinstance(exc, classes) for a tuple of classes given as a set.
IsInstance(e, classes) == MroOf[e.cls] \cap classes # {}

\* hasattr(exc, name)
HasAttr(e, name) == name \in e.attrs

----------------------------------------------------------------------------
(* Exception values. *)

Texts ==
    { "You can only delete your own comments.",
      "Post matching query does not exist." }

\* status_code / default_code class attributes of the APIException classes.
StatusOf(c) ==
    CASE c \in { "DRFValidationError", "ParseError" }     -> 400
      [] c \in { "NotAuthenticated", "AuthenticationFailed" } -> 401
      [] c \in { "DRFPermissionDenied", "SessionExpired" } -> 403
      [] c = "NotFound"                                    -> 404
      [] c = "MethodNotAllowed"                            -> 405
      [] c = "NotAcceptable"                               -> 406
      [] c = "UnsupportedMediaType"                        -> 415
      [] c = "Throttled"                                   -> 429
      [] c = "PaymentRequired"                             -> 402
      [] c = "APIException"                                -> 500
      [] OTHER                                             -> 0

DefaultCodeOf(c) ==
    CASE c = "DRFValidationError"    -> "invalid"
      [] c = "ParseError"            -> "parse_error"
      [] c = "NotAuthenticated"      -> "not_authenticated"
      [] c \in { "AuthenticationFailed", "SessionExpired" }
                                     -> "authentication_failed"
      [] c = "DRFPermissionDenied"   -> "permission_denied"
      [] c = "NotFound"              -> "not_found"
      [] c = "MethodNotAllowed"      -> "method_not_allowed"
      [] c = "NotAcceptable"         -> "not_acceptable"
      [] c = "UnsupportedMediaType"  -> "unsupported_media_type"
      [] c = "Throttled"             -> "throttled"
      [] c = "PaymentRequired"       -> "payment_required"
      [] c = "APIException"          -> "error"
      [] OTHER                       -> ""

\* Attributes an instance of the class has besides its text.
AttrsOf(c) ==
    (IF "APIException" \in Mro(c)
        THEN { "detail", "status_code", "default_code" } ELSE {})
    \cup (IF c = "Throttled" THEN { "wait" } ELSE {})
    \cup (IF c = "ProtectedError" THEN { "protected_objects" } ELSE {})
    \cup (IF c = "RestrictedError" THEN { "restricted_objects" } ELSE {})

\* The model instances 1..n a deletion error carries.
Objects(n) == [i \in 1..n |-> i]

\* An exception of class c built with text t.
NewExc(c, t) ==
    [ cls |-> c, text |-> t,
      status_code |-> StatusOf(c), default_code |-> DefaultCodeOf(c),
      wait |-> None, protected_objects |-> <<>>, restricted_objects |-> <<>>,
      attrs |-> AttrsOf(c) ]

PlainFailures ==
    { NewExc(c, t) : c \in Classes \ { "ProtectedError", "RestrictedError" },
                     t \in Texts }

\* Throttled(wait=30)
ThrottledFailures ==
    { [ NewExc("Throttled", t) EXCEPT !.wait = Some(30) ] : t \in Texts }

\* django.core.exceptions.ValidationError built from a dict has message_dict.
DictValidationFailures ==
    { [ NewExc("DjangoValidationError", t)
          EXCEPT !.attrs = { "message_dict" } ] : t \in Texts }

\* ProtectedError(msg, protected_objects) / RestrictedError(msg, restricted_objects)
DeletionFailures ==
    { [ NewExc("ProtectedError", "Post matching query does not exist.")
          EXCEPT !.protected_objects = Objects(n) ] : n \in 0..MaxDependents }
    \cup
    { [ NewExc("RestrictedError", "Post matching query does not exist.")
          EXCEPT !.restricted_objects = Objects(n) ] : n \in 0..MaxDependents }

Failures ==
    PlainFailures \cup ThrottledFailures \cup DictValidationFailures
    \cup DeletionFailures

NoExc == [ cls |-> "<none>" ]

\* Variant: the message is built from the class of the exception.
StrExc_className(e) == e.cls

\* str(exc) / str(exc.detail): the text the exception was built with.
StrExc(e) == e.text

\* str(obj) of a model instance.
StrObj(o) == "Post object (" \o ToString(o) \o ")"

----------------------------------------------------------------------------
(* _error_response *)

NoResponse == [ status_code |-> 0 ]

\* Variant: the Response is built without status=, so it keeps the default 200.
error_response_defaultStatus(message, code, status_code, errors, extra) ==
    [ status_code |-> 200,
      code        |-> code,
      message     |-> message,
      details     |-> errors,
      extra       |-> IF extra # <<>> THEN extra ELSE <<>> ]

\* Variant: message and code are passed in each other's place.
error_response_swapped(message, code, status_code, errors, extra) ==
    [ status_code |-> status_code,
      code        |-> message,
      message     |-> code,
      details     |-> errors,
      extra       |-> IF extra # <<>> THEN extra ELSE <<>> ]

error_response(message, code, status_code, errors, extra) ==
    [ status_code |-> status_code,
      code        |-> code,
      message     |-> message,
      details     |-> errors,
      extra       |-> IF extra # <<>> THEN extra ELSE <<>> ]

\* dependents[:k]
Take(s, k) == SubSeq(s, 1, IF Len(s) < k THEN Len(s) ELSE k)

\* The cap of the dependents list.
DependentsCap == 10

----------------------------------------------------------------------------
(* BaseViewSet.handle_exception *)

\* [str(obj) for obj in exc.protected_objects] if hasattr(...) else []
Dependents(e) ==
    IF HasAttr(e, "protected_objects")
        THEN [i \in 1..Len(e.protected_objects) |-> StrObj(e.protected_objects[i])]
        ELSE <<>>

\* exc.message_dict if hasattr(exc, "message_dict") else {"non_field_errors": exc.messages}
DjangoValidationDetails(e) ==
    IF HasAttr(e, "message_dict")
        THEN [key |-> "message_dict", value |-> <<e.text>>]
        ELSE [key |-> "non_field_errors", value |-> <<e.text>>]

\* exc.detail of a DRF exception, as passed to errors=
DetailOf(e) == [key |-> "detail", value |-> <<e.text>>]

\* extra = {}; if exc.wait is not None: extra["retry_after"] = exc.wait
ThrottledExtra(e) ==
    IF e.wait # None THEN << [key |-> "retry_after", value |-> e.wait[1]] >>
                     ELSE <<>>

\* getattr(exc, "default_code", "api_error")
GetDefaultCode(e) ==
    IF HasAttr(e, "default_code") THEN e.default_code ELSE "api_error"

\* Variant: the branch reads the other class flag.
SafeDbErrors_otherFlag(self) == self.LOG_REQUESTS

\* Variant: the storage branches never hide the raw text.
SafeDbErrors_off(self) == FALSE

\* self.SAFE_DB_ERRORS
SafeDbErrors(self) == self.SAFE_DB_ERRORS

\* Variant: the broad tests (APIException, DatabaseError, IntegrityError) are
\* written before the narrow ones.
RuleOrder_broadFirst ==
    << "APIException", "DRFValidationError", "ParseError", "Authentication",
       "DRFPermissionDenied", "NotFound", "MethodNotAllowed", "NotAcceptable",
       "UnsupportedMediaType", "Throttled",
       "Http404", "ObjectDoesNotExist", "MultipleObjectsReturned",
       "PermissionDenied", "DjangoValidationError", "SuspiciousOperation",
       "FieldDoesNotExist",
       "DatabaseError", "IntegrityError", "ProtectedError", "DataError",
       "OperationalError" >>

\* The isinstance tests of handle_exception, in the order they are written.
RuleOrder ==
    << "DRFValidationError", "ParseError", "Authentication",
       "DRFPermissionDenied", "NotFound", "MethodNotAllowed", "NotAcceptable",
       "UnsupportedMediaType", "Throttled", "APIException",
       "Http404", "ObjectDoesNotExist", "MultipleObjectsReturned",
       "PermissionDenied", "DjangoValidationError", "SuspiciousOperation",
       "FieldDoesNotExist",
       "ProtectedError", "IntegrityError", "DataError", "OperationalError",
       "DatabaseError" >>

\* The classes each test names.
RuleClasses(rule) ==
    CASE rule = "Authentication"      -> { "NotAuthenticated", "AuthenticationFailed" }
      [] rule = "SuspiciousOperation" -> { "SuspiciousOperation", "DisallowedHost" }
      [] rule = "ProtectedError"      -> { "ProtectedError", "RestrictedError" }
      [] rule = "DatabaseError"       -> { "ProgrammingError", "DatabaseError" }
      [] OTHER                        -> { rule }

\* Variant: the catch-all answers with the text of the exception.
Fallback_leak(self, e) ==
    error_response(StrExc(e), "internal_server_error", 500, None, None)

\* The catch-all after the last test.
Fallback(self, e) ==
    error_response("An unexpected internal error occurred.",
                   "internal_server_error", 500, None, None)

\* The return statement under each test.
RuleResponse(rule, self, e) ==
    CASE rule = "DRFValidationError" ->
            error_response("Invalid input.", "validation_error", 400,
                           Some(DetailOf(e)), None)
      [] rule = "ParseError" ->
            error_response("Malformed request body.", "parse_error", 400,
                           Some(DetailOf(e)), None)
      [] rule = "Authentication" ->
            error_response(StrExc(e), "authentication_error", e.status_code,
                           None, None)
      [] rule = "DRFPermissionDenied" ->
            error_response(StrExc(e), "permission_denied", 403, None, None)
      [] rule = "NotFound" ->
            error_response(StrExc(e), "not_found", 404, None, None)
      [] rule = "MethodNotAllowed" ->
            error_response(StrExc(e), "method_not_allowed", 405, None, None)
      [] rule = "NotAcceptable" ->
            error_response(StrExc(e), "not_acceptable", 406, None, None)
      [] rule = "UnsupportedMediaType" ->
            error_response(StrExc(e), "unsupported_media_type", 415, None, None)
      [] rule = "Throttled" ->
            error_response("Request throttled. Try again later.", "throttled",
                           429, None, ThrottledExtra(e))
      [] rule = "APIException" ->
            error_response(StrExc(e), GetDefaultCode(e), e.status_code,
                           None, None)
      [] rule = "Http404" ->
            error_response("The requested resource was not found.",
                           "not_found", 404, None, None)
      [] rule = "ObjectDoesNotExist" ->
            error_response("The requested object does not exist.",
                           "not_found", 404, None, None)
      [] rule = "MultipleObjectsReturned" ->
            error_response("Multiple objects found where only one was expected.",
                           "multiple_objects", 500, None, None)
      [] rule = "PermissionDenied" ->
            error_response("You do not have permission to perform this action.",
                           "permission_denied", 403, None, None)
      [] rule = "DjangoValidationError" ->
            error_response("Invalid input.", "validation_error", 400,
                           Some(DjangoValidationDetails(e)), None)
      [] rule = "SuspiciousOperation" ->
            error_response("Bad request.", "bad_request", 400, None, None)
      [] rule = "FieldDoesNotExist" ->
            error_response("A referenced field does not exist.",
                           "field_does_not_exist", 400, None, None)
      [] rule = "ProtectedError" ->
            error_response(
                "Cannot delete this object because it is referenced by other records.",
                "protected_object", 409,
                Some([key |-> "dependents",
                      value |-> Take(Dependents(e), DependentsCap)]), None)
      [] rule = "IntegrityError" ->
            error_response(
                IF SafeDbErrors(self)
                    THEN "A database integrity constraint was violated."
                    ELSE StrExc(e),
                "integrity_error", 409, None, None)
      [] rule = "DataError" ->
            error_response(
                IF SafeDbErrors(self)
                    THEN "The provided data is invalid for the database schema."
                    ELSE StrExc(e),
                "data_error", 400, None, None)
      [] rule = "OperationalError" ->
            error_response(
                "A database operational error occurred. Please try again later.",
                "db_operational_error", 503, None, None)
      [] rule = "DatabaseError" ->
            error_response("An unexpected database error occurred.",
                           "db_error", 500, None, None)
      [] OTHER -> Fallback(self, e)

\* The first test of RuleOrder, from index i on, that the exception passes
\* ("<fallback>" when it passes none).
RECURSIVE FirstMatch(_, _)
FirstMatch(e, i) ==
    IF i > Len(RuleOrder) THEN "<fallback>"
    ELSE IF IsInstance(e, RuleClasses(RuleOrder[i])) THEN RuleOrder[i]
    ELSE FirstMatch(e, i + 1)

handle_exception(self, e) == RuleResponse(FirstMatch(e, 1), self, e)

----------------------------------------------------------------------------
(* The viewset instance serving a request. *)

ViewSets == { "PostViewSet", "CommentViewSet" }

\* The viewset class each request is routed to.
ViewOf(r) == IF r = "r1" THEN "PostViewSet" ELSE "CommentViewSet"

\* self.request
RequestOf(r) ==
    IF r = "r1" THEN [method |-> "GET", path |-> "/api/posts/999/"]
                ELSE [method |-> "DELETE", path |-> "/api/posts/42/comments/7/"]

\* self, as handle_exception reads it.
Self(r) ==
    [ LOG_REQUESTS   |-> config[ViewOf(r)].LOG_REQUESTS,
      SAFE_DB_ERRORS |-> config[ViewOf(r)].SAFE_DB_ERRORS,
      request        |-> RequestOf(r) ]

Flags == [ LOG_REQUESTS : BOOLEAN, SAFE_DB_ERRORS : BOOLEAN ]

\* The class attributes as the source sets them.
DeclaredConfig ==
    [ v \in ViewSets |->
        [ LOG_REQUESTS   |-> (v = "PostViewSet"),
          SAFE_DB_ERRORS |-> TRUE ] ]

----------------------------------------------------------------------------
(* Dispatch boundary: an exception that leaves a handler is classified. *)

Idle ==
    /\ pc = [r \in Requests |-> "idle"]
    /\ op = [r \in Requests |-> "none"]
    /\ pos = [r \in Requests |-> 0]
    /\ trace = [r \in Requests |-> <<>>]
    /\ exc = [r \in Requests |-> NoExc]
    /\ origin = [r \in Requests |-> NoExc]
    /\ response = [r \in Requests |-> NoResponse]
    /\ result = [r \in Requests |-> None]
    /\ entity = [r \in Requests |-> "absent"]
    /\ local = [r \in Requests |-> None]
    /\ given = [r \in Requests |-> None]

\* The class attributes are those the classes declare.
Init ==
    /\ config = DeclaredConfig
    /\ Idle

\* A subclass may override either flag; PostViewSet sets LOG_REQUESTS = True.
InitClassify ==
    /\ config \in { c \in [ViewSets -> Flags] : c["PostViewSet"].LOG_REQUESTS }
    /\ Idle

\* Some collaborator raises a failure while request r is handled.
Raise(r) ==
    /\ pc[r] = "idle"
    /\ \E f \in Failures :
        /\ exc' = [exc EXCEPT ![r] = f]
        /\ origin' = [origin EXCEPT ![r] = f]
    /\ pc' = [pc EXCEPT ![r] = "raised"]
    /\ response' = [response EXCEPT ![r] = NoResponse]
    /\ UNCHANGED <<config, op, pos, trace, result, entity, local, given>>

\* dispatch() hands the exception in flight to handle_exception.
HandleException(r) ==
    /\ pc[r] = "raised"
    /\ response' = [response EXCEPT ![r] = handle_exception(Self(r), exc[r])]
    /\ pc' = [pc EXCEPT ![r] = "responded"]
    /\ UNCHANGED <<config, op, pos, trace, exc, origin, result, entity, local, given>>

\* The response is sent; the viewset instance is discarded.
Finish(r) ==
    /\ pc[r] \in { "responded", "returned" }
    /\ pc' = [pc EXCEPT ![r] = "idle"]
    /\ op' = [op EXCEPT ![r] = "none"]
    /\ pos' = [pos EXCEPT ![r] = 0]
    /\ trace' = [trace EXCEPT ![r] = <<>>]
    /\ exc' = [exc EXCEPT ![r] = NoExc]
    /\ origin' = [origin EXCEPT ![r] = NoExc]
    /\ response' = [response EXCEPT ![r] = NoResponse]
    /\ result' = [result EXCEPT ![r] = None]
    /\ entity' = [entity EXCEPT ![r] = "absent"]
    /\ local' = [local EXCEPT ![r] = None]
    /\ given' = [given EXCEPT ![r] = None]
    /\ UNCHANGED config

NextClassify ==
    \E r \in Requests : Raise(r) \/ HandleException(r) \/ Finish(r)

SpecClassify == InitClassify /\ [][NextClassify]_vars

----------------------------------------------------------------------------
(* success_response: the success envelope custom actions answer with.      *)
(* A call is the record of its keyword arguments, None for one left out.   *)

\* The value of a keyword argument, or the default of the signature.
Keyword(arg, default) == IF arg = None THEN default ELSE arg[1]

\* Variant: the envelope carries the message in place of the data.
success_response_noData(kw) ==
    [ status_code |-> Keyword(kw.status_code, 200),
      body        |-> [ message |-> Keyword(kw.message, "Success."),
                        data    |-> kw.message ] ]

success_response(kw) ==
    [ status_code |-> Keyword(kw.status_code, 200),
      body        |-> [ message |-> Keyword(kw.message, "Success."),
                        data    |-> kw.data ] ]

\* What custom actions pass: serializer.data or nothing, a message, a status.
Payloads == { "serialize()", "{}" }
Messages == { "Post published successfully.", "Created." }
Statuses == { 200, 201 }

Option(S) == { None } \cup { Some(v) : v \in S }

Keywords ==
    [ data : Option(Payloads), message : Option(Messages),
      status_code : Option(Statuses) ]

\* A custom action of the viewset answers with success_response(...).
CustomAction(r) ==
    /\ pc[r] = "idle"
    /\ \E kw \in Keywords :
        /\ given' = [given EXCEPT ![r] = Some(kw)]
        /\ response' = [response EXCEPT ![r] = success_response(kw)]
    /\ pc' = [pc EXCEPT ![r] = "returned"]
    /\ result' = [result EXCEPT ![r] = Some("response")]
    /\ UNCHANGED <<config, op, pos, trace, exc, origin, entity, local>>

NextSuccess ==
    \E r \in Requests : CustomAction(r) \/ Finish(r)

SpecSuccess == Init /\ [][NextSuccess]_vars

----------------------------------------------------------------------------
(* Outcomes of a call: it returns, or it raises an exception. *)

Return == [kind |-> "return", exc |-> NoExc]
Raising(f) == [kind |-> "raise", exc |-> f]

\* The failures hooks and collaborators raise while a handler runs.
PipelineFailures ==
    { NewExc("DRFValidationError", "You can only delete your own comments."),
      NewExc("DRFPermissionDenied", "You can only delete your own comments."),
      NewExc("DRFPermissionDenied", "Post matching query does not exist."),
      NewExc("Http404", "Post matching query does not exist."),
      NewExc("PostDoesNotExist", "Post matching query does not exist."),
      NewExc("ObjectDoesNotExist", "You can only delete your own comments."),
      NewExc("IntegrityError", "Post matching query does not exist."),
      NewExc("ValueError", "You can only delete your own comments.") }

Outcomes == { Return } \cup { Raising(f) : f \in PipelineFailures }

----------------------------------------------------------------------------
(* error_boundary, get_queryset, get_object: what leaves the wrapper, given *)
(* what the wrapped block or super() call did.                              *)

\* Variant: the boundary answers the exception itself and lets none escape.
error_boundary_swallow(outcome) == Return

\* try: yield / except Exception as exc: raise exc
error_boundary(outcome) ==
    IF outcome.kind = "raise" THEN Raising(outcome.exc) ELSE outcome

\* try: return super().get_queryset()
\* except ObjectDoesNotExist as exc: raise NotFound(detail=str(exc))
get_queryset(outcome) ==
    IF outcome.kind = "raise" /\ IsInstance(outcome.exc, {"ObjectDoesNotExist"})
        THEN Raising(NewExc("NotFound", StrExc(outcome.exc)))
        ELSE outcome

\* Variant: the wrapper lets every exception of super().get_object() through.
get_object_passThrough(outcome) == outcome

\* Variant: both except clauses build the NotFound from str(exc).
get_object_strBoth(outcome) ==
    IF outcome.kind = "raise"
       /\ IsInstance(outcome.exc, {"Http404", "ObjectDoesNotExist"})
        THEN Raising(NewExc("NotFound", StrExc(outcome.exc)))
        ELSE outcome

\* try: return super().get_object()
\* except Http404 as exc: raise NotFound(detail="Object not found.")
\* except ObjectDoesNotExist as exc: raise NotFound(detail=str(exc))
get_object(outcome) ==
    IF outcome.kind = "raise" /\ IsInstance(outcome.exc, {"Http404"})
        THEN Raising(NewExc("NotFound", "Object not found."))
    ELSE IF outcome.kind = "raise"
            /\ IsInstance(outcome.exc, {"ObjectDoesNotExist"})
        THEN Raising(NewExc("NotFound", StrExc(outcome.exc)))
    ELSE outcome

\* PostViewSet.publish:
\* try: post.publish()
\* except ValueError as exc: raise ValidationError({"detail": str(exc)})
post_publish(outcome) ==
    IF outcome.kind = "raise" /\ IsInstance(outcome.exc, {"ValueError"})
        THEN Raising(NewExc("DRFValidationError", StrExc(outcome.exc)))
        ELSE outcome

----------------------------------------------------------------------------
(* The handlers: each body is the sequence of statements it runs, in       *)
(* order. A statement that raises ends the handler.                        *)

\* Variant: the after hook is called before the save.
perform_create_body_afterFirst ==
    << "before_perform_create", "get_create_kwargs", "after_perform_create",
       "save" >>

perform_create_body ==
    << "before_perform_create", "get_create_kwargs", "save",
       "after_perform_create" >>

\* Variant: the after hook is called before the serializer is saved.
perform_update_body_saveLast ==
    << "before_perform_update", "get_update_kwargs", "after_perform_update",
       "save" >>

perform_update_body ==
    << "before_perform_update", "get_update_kwargs", "save",
       "after_perform_update" >>

\* Variant: the instance is deleted before the before hook is asked.
perform_destroy_body_deleteFirst ==
    << "delete", "before_perform_destroy", "after_perform_destroy" >>

perform_destroy_body ==
    << "before_perform_destroy", "delete", "after_perform_destroy" >>

\* Variant: the external filter runs before the before hook.
filter_queryset_body_filterFirst ==
    << "super_filter_queryset", "before_perform_list", "after_perform_list" >>

filter_queryset_body ==
    << "before_perform_list", "super_filter_queryset", "after_perform_list" >>

\* list() resolves the queryset, then filters it.
list_body == << "get_queryset" >> \o filter_queryset_body

\* Variant: the before hook runs ahead of the lookup.
retrieve_body_hookFirst ==
    << "before_perform_retrieve", "get_object", "get_serializer",
       "after_perform_retrieve", "serializer_data" >>

\* The last call is the evaluation of serializer.data in the return statement.
retrieve_body ==
    << "get_object", "before_perform_retrieve", "get_serializer",
       "after_perform_retrieve", "serializer_data" >>

\* PostViewSet.publish, the block under "with self.error_boundary()".
publish_body == << "get_object", "check_author", "publish", "serialize" >>

Handlers ==
    { "perform_create", "perform_update", "perform_destroy", "list",
      "retrieve", "publish" }

BodyOf(h) ==
    CASE h = "perform_create"  -> perform_create_body
      [] h = "perform_update"  -> perform_update_body
      [] h = "perform_destroy" -> perform_destroy_body
      [] h = "list"            -> list_body
      [] h = "retrieve"        -> retrieve_body
      [] h = "publish"         -> publish_body

\* What the handler returns when its body ran to the end, v being the value
\* it holds: filter_queryset returns its queryset.
ResultOf(h, v) ==
    CASE h \in { "perform_create", "perform_update" } -> Some("instance")
      [] h = "perform_destroy"                       -> None
      [] h = "list"                                  -> v
      [] h \in { "retrieve", "publish" }             -> Some("response")

\* The value a call returned, as the term call(argument).
Apply(call, arg) == call \o "(" \o arg \o ")"

\* The value the handler holds after the call returned: the hooks of the list
\* pipeline and the filter take the queryset and hand back a queryset.
Flow(call, v) ==
    CASE call = "get_queryset" -> Some(Apply(call, ""))
      [] call \in { "before_perform_list", "super_filter_queryset",
                    "after_perform_list" } -> Some(Apply(call, v[1]))
      [] call \in { "serialize", "serializer_data" } -> Some(Apply(call, ""))
      [] OTHER -> v

\* publish: success_response(data=serializer.data, message=..., status_code=200)
PublishKeywords(v) ==
    [ data        |-> v,
      message     |-> Some("Post published successfully."),
      status_code |-> Some(200) ]

\* retrieve: Response(serializer.data)
RetrieveResponse(v) == [ status_code |-> 200, body |-> v[1] ]

\* The subject of create does not exist yet; that of the others is stored.
InitialEntity(h) == IF h = "perform_create" THEN "absent" ELSE "stored"

\* serializer.save() / instance.delete() that returned.
Persist(call, e) ==
    CASE call = "save"   -> "saved"
      [] call = "delete" -> "deleted"
      [] OTHER           -> e

\* What leaves the statement, given what the hook or collaborator under it did.
Inner(call, outcome) ==
    CASE call = "get_object"   -> get_object(outcome)
      [] call = "get_queryset" -> get_queryset(outcome)
      [] call = "publish"      -> post_publish(outcome)
      [] OTHER                 -> outcome

\* The same, seen from outside the handler: publish runs under error_boundary.
Through(h, call, outcome) ==
    IF h = "publish" THEN error_boundary(Inner(call, outcome))
                     ELSE Inner(call, outcome)

\* Variant: routing a request switches request logging on for its class.
Dispatch_setsFlag(r) ==
    /\ pc[r] = "idle"
    /\ \E h \in Handlers :
        /\ op' = [op EXCEPT ![r] = h]
        /\ entity' = [entity EXCEPT ![r] = InitialEntity(h)]
    /\ pc' = [pc EXCEPT ![r] = "running"]
    /\ pos' = [pos EXCEPT ![r] = 1]
    /\ config' = [config EXCEPT ![ViewOf(r)].LOG_REQUESTS = TRUE]
    /\ UNCHANGED <<trace, exc, origin, response, result, local, given>>

\* The request is routed to a handler.
Dispatch(r) ==
    /\ pc[r] = "idle"
    /\ \E h \in Handlers :
        /\ op' = [op EXCEPT ![r] = h]
        /\ entity' = [entity EXCEPT ![r] = InitialEntity(h)]
    /\ pc' = [pc EXCEPT ![r] = "running"]
    /\ pos' = [pos EXCEPT ![r] = 1]
    /\ UNCHANGED <<config, trace, exc, origin, response, result, local, given>>

\* The next call of the body is made; it returns or raises.
CallNext(r, h, body) ==
    /\ pos[r] <= Len(body)
    /\ \E raw \in Outcomes :
        LET call == body[pos[r]]
            out  == Through(h, call, raw)
        IN  /\ trace' = [trace EXCEPT ![r] =
                            Append(@, [call |-> call, ok |-> out.kind = "return"])]
            /\ IF out.kind = "return"
                 THEN /\ pos' = [pos EXCEPT ![r] = @ + 1]
                      /\ entity' = [entity EXCEPT ![r] = Persist(call, @)]
                      /\ local' = [local EXCEPT ![r] = Flow(call, @)]
                      /\ UNCHANGED <<pc, exc>>
                 ELSE /\ pc' = [pc EXCEPT ![r] = "raised"]
                      /\ exc' = [exc EXCEPT ![r] = out.exc]
                      /\ UNCHANGED <<pos, entity, local>>
            /\ origin' = [origin EXCEPT ![r] = raw.exc]
    /\ UNCHANGED <<config, op, response, result, given>>

\* The body ran to its end: the handler returns.
ReturnFrom(r, h, body) ==
    /\ pos[r] > Len(body)
    /\ pc' = [pc EXCEPT ![r] = "returned"]
    /\ result' = [result EXCEPT ![r] = ResultOf(h, local[r])]
    /\ given' = [given EXCEPT ![r] =
                    IF h = "publish" THEN Some(PublishKeywords(local[r])) ELSE @]
    /\ response' = [response EXCEPT ![r] =
                    CASE h = "publish"  -> success_response(PublishKeywords(local[r]))
                      [] h = "retrieve" -> RetrieveResponse(local[r])
                      [] OTHER          -> @]
    /\ UNCHANGED <<config, op, pos, trace, exc, origin, entity, local>>

RunHandler(r, h, body) ==
    CallNext(r, h, body) \/ ReturnFrom(r, h, body)

perform_create(r) ==
    /\ pc[r] = "running" /\ op[r] = "perform_create"
    /\ RunHandler(r, "perform_create", perform_create_body)

perform_update(r) ==
    /\ pc[r] = "running" /\ op[r] = "perform_update"
    /\ RunHandler(r, "perform_update", perform_update_body)

perform_destroy(r) ==
    /\ pc[r] = "running" /\ op[r] = "perform_destroy"
    /\ RunHandler(r, "perform_destroy", perform_destroy_body)

list(r) ==
    /\ pc[r] = "running" /\ op[r] = "list"
    /\ RunHandler(r, "list", list_body)

retrieve(r) ==
    /\ pc[r] = "running" /\ op[r] = "retrieve"
    /\ RunHandler(r, "retrieve", retrieve_body)

publish(r) ==
    /\ pc[r] = "running" /\ op[r] = "publish"
    /\ RunHandler(r, "publish", publish_body)

Next ==
    \E r \in Requests :
        \/ Dispatch(r)
        \/ perform_create(r)
        \/ perform_update(r)
        \/ perform_destroy(r)
        \/ list(r)
        \/ retrieve(r)
        \/ publish(r)
        \/ HandleException(r)
        \/ Finish(r)

Spec == Init /\ [][Next]_vars

----------------------------------------------------------------------------
(* The failure kinds of the specification, read off the exception class:   *)
(* the kind of a class is that of its nearest base class that has one.     *)

RECURSIVE KindOf(_)
KindOf(c) ==
    CASE c = "DRFValidationError"      -> "validation"
      [] c = "DjangoValidationError"   -> "validation"
      [] c = "ParseError"              -> "parse"
      [] c = "NotAuthenticated"        -> "auth_missing"
      [] c = "AuthenticationFailed"    -> "auth_failed"
      [] c = "DRFPermissionDenied"     -> "permission_denied"
      [] c = "NotFound"                -> "not_found"
      [] c = "MethodNotAllowed"        -> "method_not_allowed"
      [] c = "NotAcceptable"           -> "not_acceptable"
      [] c = "UnsupportedMediaType"    -> "unsupported_media"
      [] c = "Throttled"               -> "throttled"
      [] c = "APIException"            -> "generic_api_error"
      [] c = "Http404"                 -> "object_missing"
      [] c = "ObjectDoesNotExist"      -> "object_missing"
      [] c = "MultipleObjectsReturned" -> "multiple_objects"
      [] c = "PermissionDenied"        -> "core_permission_denied"
      [] c = "DisallowedHost"          -> "bad_request"
      [] c = "SuspiciousOperation"     -> "suspicious_operation"
      [] c = "FieldDoesNotExist"       -> "field_missing"
      [] c = "ProtectedError"          -> "referential_block"
      [] c = "RestrictedError"         -> "referential_block"
      [] c = "IntegrityError"          -> "integrity_violation"
      [] c = "DataError"               -> "data_invalid"
      [] c = "OperationalError"        -> "storage_unavailable"
      [] c = "ProgrammingError"        -> "storage_error"
      [] c = "DatabaseError"           -> "storage_error"
      [] c = "Exception"               -> "unknown"
      [] OTHER                         -> KindOf(Base(c))

KindTable == [c \in Classes |-> KindOf(c)]

Kind(e) == KindTable[e.cls]

SpecificAPIKinds ==
    { "validation", "parse", "auth_missing", "auth_failed", "permission_denied",
      "not_found", "method_not_allowed", "not_acceptable", "unsupported_media",
      "throttled" }

Responded(r) == pc[r] = "responded"

\* A request whose failure was raised directly at the dispatch boundary.
Classified(r) == Responded(r) /\ op[r] = "none"

----------------------------------------------------------------------------
(* C1: handle_exception is total and deterministic: every failure of every *)
(* kind, named or not, under either value of SAFE_DB_ERRORS, is answered   *)
(* by one well-formed error response, and two calls with the same failure  *)
(* and the same SAFE_DB_ERRORS answer alike, whatever LOG_REQUESTS and the *)
(* request are.                                                            *)

WellFormedResponse(resp) ==
    /\ resp.status_code \in 100..599
    /\ resp.code # ""
    /\ resp.message # ""
    /\ Len(resp.details) \in {0, 1}
    /\ Len(resp.extra) \in {0, 1}

\* C1: one well-formed response per failure, the same for the same failure
\* and SAFE_DB_ERRORS.
C1_TotalDeterministic ==
    /\ \A r \in Requests : Responded(r) => WellFormedResponse(response[r])
    /\ \A r1, r2 \in Requests :
          ( /\ Responded(r1) /\ Responded(r2)
            /\ exc[r1] = exc[r2]
            /\ Self(r1).SAFE_DB_ERRORS = Self(r2).SAFE_DB_ERRORS )
          => response[r1] = response[r2]

\* Two different requests, under different LOG_REQUESTS, classified the same
\* storage failure under the same SAFE_DB_ERRORS.
C1_Witness ==
    /\ Classified("r1") /\ Classified("r2")
    /\ exc["r1"] = exc["r2"]
    /\ Kind(exc["r1"]) = "integrity_violation"
    /\ Self("r1").SAFE_DB_ERRORS = Self("r2").SAFE_DB_ERRORS
    /\ Self("r1").LOG_REQUESTS # Self("r2").LOG_REQUESTS
    /\ Self("r1").request # Self("r2").request

----------------------------------------------------------------------------
(* C2: every named failure kind is answered with the status and the code   *)
(* of the table: validation 400/validation_error, ..., storage_error       *)
(* 500/db_error; the authentication kinds and generic_api_error carry      *)
(* their own status, generic_api_error its own default code.               *)

TableStatus(e) ==
    LET k == Kind(e) IN
    CASE k \in { "validation", "parse", "bad_request", "suspicious_operation",
                 "field_missing", "data_invalid" }              -> 400
      [] k \in { "auth_missing", "auth_failed", "generic_api_error" }
                                                                -> e.status_code
      [] k \in { "permission_denied", "core_permission_denied" } -> 403
      [] k \in { "not_found", "object_missing" }                -> 404
      [] k = "method_not_allowed"                               -> 405
      [] k = "not_acceptable"                                   -> 406
      [] k = "unsupported_media"                                -> 415
      [] k = "throttled"                                        -> 429
      [] k \in { "referential_block", "integrity_violation" }   -> 409
      [] k = "storage_unavailable"                              -> 503
      [] k \in { "multiple_objects", "storage_error" }          -> 500

TableCode(e) ==
    LET k == Kind(e) IN
    CASE k = "validation"                                   -> "validation_error"
      [] k = "parse"                                        -> "parse_error"
      [] k \in { "auth_missing", "auth_failed" }            -> "authentication_error"
      [] k \in { "permission_denied", "core_permission_denied" }
                                                            -> "permission_denied"
      [] k \in { "not_found", "object_missing" }            -> "not_found"
      [] k = "multiple_objects"                             -> "multiple_objects"
      [] k = "method_not_allowed"                           -> "method_not_allowed"
      [] k = "not_acceptable"                               -> "not_acceptable"
      [] k = "unsupported_media"                            -> "unsupported_media_type"
      [] k = "throttled"                                    -> "throttled"
      [] k = "generic_api_error"                            -> e.default_code
      [] k \in { "bad_request", "suspicious_operation" }    -> "bad_request"
      [] k = "field_missing"                                -> "field_does_not_exist"
      [] k = "referential_block"                            -> "protected_object"
      [] k = "integrity_violation"                          -> "integrity_error"
      [] k = "data_invalid"                                 -> "data_error"
      [] k = "storage_unavailable"                          -> "db_operational_error"
      [] k = "storage_error"                                -> "db_error"

----------------------------------------------------------------------------
(* C3: the first matching test answers, and a failure of a narrow kind is  *)
(* answered by its own test: no specific API kind by the APIException      *)
(* test, no generic_api_error by the catch-all, no referential_block as    *)
(* integrity_error, no integrity_violation / data_invalid /                *)
(* storage_unavailable as db_error.                                        *)

C3_NarrowestRuleWins ==
    \A r \in Requests :
        Responded(r) =>
            LET e    == exc[r]
                rule == FirstMatch(e, 1)
            IN  /\ response[r] = RuleResponse(rule, Self(r), e)
                /\ \A i \in 1..Len(RuleOrder) :
                      IsInstance(e, RuleClasses(RuleOrder[i])) =>
                          \E j \in 1..i : RuleOrder[j] = rule
                /\ Kind(e) \in SpecificAPIKinds => rule # "APIException"
                /\ Kind(e) = "generic_api_error" =>
                      /\ rule = "APIException"
                      /\ response[r].code # "internal_server_error"
                /\ Kind(e) = "referential_block" =>
                      /\ rule = "ProtectedError"
                      /\ response[r].code # "integrity_error"
                /\ Kind(e) \in { "integrity_violation", "data_invalid",
                                 "storage_unavailable" } =>
                      /\ rule # "DatabaseError"
                      /\ response[r].code # "db_error"

\* A throttled request and a blocked deletion, each also an instance of a
\* broader class tested later, have been answered.
C3_Witness ==
    /\ Classified("r1") /\ Classified("r2")
    /\ exc["r1"].cls = "Throttled"
    /\ IsInstance(exc["r1"], {"APIException"})
    /\ response["r1"].code = "throttled"
    /\ exc["r2"].cls = "ProtectedError"
    /\ IsInstance(exc["r2"], {"IntegrityError"})
    /\ IsInstance(exc["r2"], {"DatabaseError"})
    /\ response["r2"].code = "protected_object"

----------------------------------------------------------------------------
(* C4: a failure of no named kind is answered 500 / internal_server_error  *)
(* with the fixed message, null details and no extra field, whatever its   *)
(* text and whatever SAFE_DB_ERRORS is.                                    *)

InternalServerError ==
    [ status_code |-> 500,
      code        |-> "internal_server_error",
      message     |-> "An unexpected internal error occurred.",
      details     |-> None,
      extra       |-> <<>> ]

\* C4: every unknown failure gets the one generic 500 response.
C4_UnknownIsGeneric ==
    \A r \in Requests :
        (Responded(r) /\ Kind(exc[r]) = "unknown") =>
            response[r] = InternalServerError

\* Two unknown failures with different texts, answered under different
\* SAFE_DB_ERRORS.
C4_Witness ==
    /\ Classified("r1") /\ Classified("r2")
    /\ Kind(exc["r1"]) = "unknown" /\ Kind(exc["r2"]) = "unknown"
    /\ exc["r1"].text # exc["r2"].text
    /\ Self("r1").SAFE_DB_ERRORS # Self("r2").SAFE_DB_ERRORS
    /\ response["r1"] = response["r2"]

----------------------------------------------------------------------------
(* The roles of the calls of perform_create / perform_update /             *)
(* perform_destroy, and how a run of a handler ended.                      *)

Pipelines == { "perform_create", "perform_update", "perform_destroy" }

BeforeHook(h) ==
    CASE h = "perform_create"  -> "before_perform_create"
      [] h = "perform_update"  -> "before_perform_update"
      [] h = "perform_destroy" -> "before_perform_destroy"

PersistCall(h) == IF h = "perform_destroy" THEN "delete" ELSE "save"

AfterHook(h) ==
    CASE h = "perform_create"  -> "after_perform_create"
      [] h = "perform_update"  -> "after_perform_update"
      [] h = "perform_destroy" -> "after_perform_destroy"

\* The positions of the trace at which the call was made.
At(t, call) == { i \in 1..Len(t) : t[i].call = call }

Called(call) == [call |-> call, ok |-> TRUE]
Failed(call) == [call |-> call, ok |-> FALSE]

\* The handler was left by an exception.
Escaped(r) == pc[r] \in { "raised", "responded" }

\* The call the exception in flight came out of.
LastCall(r) == trace[r][Len(trace[r])].call

----------------------------------------------------------------------------
(* C5: in every run of perform_create, perform_update and perform_destroy  *)
(* the before hook runs exactly once and first, the save / delete at most  *)
(* once and only after the before hook returned, never again after it      *)
(* raised, and the after hook at most once and only after the save /       *)
(* delete returned.                                                        *)

C5_BeforePerformAfter ==
    \A r \in Requests :
        op[r] \in Pipelines =>
            LET t == trace[r]
                b == BeforeHook(op[r])
                p == PersistCall(op[r])
                a == AfterHook(op[r])
            IN  /\ Cardinality(At(t, b)) <= 1
                /\ Cardinality(At(t, p)) <= 1
                /\ Cardinality(At(t, a)) <= 1
                /\ Len(t) >= 1 => t[1].call = b
                /\ pc[r] \in { "raised", "returned", "responded" } =>
                      Cardinality(At(t, b)) = 1
                /\ \A i \in At(t, p) : \E j \in 1..(i - 1) : t[j] = Called(b)
                /\ \A i \in At(t, a) : \E j \in 1..(i - 1) : t[j] = Called(p)
                /\ \A i \in 1..Len(t) : ~t[i].ok => i = Len(t)
                /\ pc[r] = "returned" =>
                      /\ Cardinality(At(t, p)) = 1
                      /\ Cardinality(At(t, a)) = 1

\* A create that ran all three steps, and a destroy whose delete raised
\* after its before hook returned.
C5_Witness ==
    /\ op["r1"] = "perform_create" /\ pc["r1"] = "returned"
    /\ trace["r1"] = << Called("before_perform_create"),
                        Called("get_create_kwargs"), Called("save"),
                        Called("after_perform_create") >>
    /\ op["r2"] = "perform_destroy" /\ Escaped("r2")
    /\ trace["r2"] = << Called("before_perform_destroy"), Failed("delete") >>

----------------------------------------------------------------------------
(* C6: when the before hook of create, update or destroy raises, the       *)
(* handler is left by that very failure: save / delete and the after hook  *)
(* are never called, the entity is neither saved nor deleted, and nothing  *)
(* is returned.                                                            *)

C6_BeforeVeto ==
    \A r \in Requests :
        ( /\ op[r] \in Pipelines
          /\ \E i \in 1..Len(trace[r]) : trace[r][i] = Failed(BeforeHook(op[r])) )
        =>  /\ Escaped(r)
            /\ At(trace[r], PersistCall(op[r])) = {}
            /\ At(trace[r], AfterHook(op[r])) = {}
            /\ entity[r] = InitialEntity(op[r])
            /\ result[r] = None
            /\ exc[r] = origin[r]
            /\ exc[r] \in PipelineFailures

\* before_perform_destroy vetoed the deletion and the veto was answered 403.
C6_Witness ==
    /\ op["r1"] = "perform_destroy" /\ Responded("r1")
    /\ trace["r1"] = << Failed("before_perform_destroy") >>
    /\ exc["r1"].cls = "DRFPermissionDenied"
    /\ entity["r1"] = "stored"
    /\ response["r1"].status_code = 403

----------------------------------------------------------------------------
(* C7: a low-level entity-absent signal (Http404, ObjectDoesNotExist)      *)
(* raised under get_queryset or get_object is answered 404 / not_found,    *)
(* never 500.                                                              *)

AbsentSignal(e) == IsInstance(e, {"Http404", "ObjectDoesNotExist"})

\* The lookup of request r was left by an exception that began as an
\* entity-absent signal.
LookupMissed(r) ==
    /\ Escaped(r)
    /\ LastCall(r) \in { "get_queryset", "get_object" }
    /\ AbsentSignal(origin[r])

AnsweredNotFound(r) ==
    Responded(r) =>
        /\ response[r].status_code = 404
        /\ response[r].code = "not_found"

----------------------------------------------------------------------------
(* C8: retrieve of an id that does not exist is answered 404 with the      *)
(* message "Object not found.".                                            *)

RetrieveMissed(r) ==
    /\ op[r] = "retrieve"
    /\ Responded(r)
    /\ LastCall(r) = "get_object"
    /\ AbsentSignal(origin[r])

\* C8 as stated: the message is "Object not found." for every signal.
C8_Original ==
    \A r \in Requests :
        RetrieveMissed(r) =>
            /\ response[r].status_code = 404
            /\ response[r].message = "Object not found."

\* C8 as amended: 404 / not_found for every signal; the message is
\* "Object not found." when the fetch raised Http404 and the text of the
\* signal when it raised ObjectDoesNotExist.
C8_RetrieveMissing ==
    \A r \in Requests :
        RetrieveMissed(r) =>
            /\ exc[r].cls = "NotFound"
            /\ response[r].status_code = 404
            /\ response[r].code = "not_found"
            /\ response[r].details = None
            /\ response[r].message =
                  IF IsInstance(origin[r], {"Http404"})
                      THEN "Object not found."
                      ELSE StrExc(origin[r])

\* Both signals seen by retrieve: Http404 and a model's DoesNotExist.
C8_Witness ==
    /\ RetrieveMissed("r1") /\ RetrieveMissed("r2")
    /\ origin["r1"].cls = "Http404"
    /\ response["r1"].message = "Object not found."
    /\ origin["r2"].cls = "PostDoesNotExist"
    /\ response["r2"].message = "Post matching query does not exist."

----------------------------------------------------------------------------
(* C9: error_boundary passes every failure of its block through unchanged, *)
(* so that it is classified as if the boundary were absent, and raises     *)
(* nothing when the block raises nothing.                                  *)

\* What leaves the statement of the block when no boundary encloses it.
Unbounded(r) == Inner(LastCall(r), Raising(origin[r]))

\* C9: what leaves error_boundary is what left the block.
C9_BoundaryPassThrough ==
    \A r \in Requests :
        op[r] = "publish" =>
            /\ origin[r] # NoExc => Escaped(r)
            /\ Escaped(r) =>
                  /\ ~trace[r][Len(trace[r])].ok
                  /\ exc[r] = Unbounded(r).exc
            /\ Responded(r) =>
                  response[r] = handle_exception(Self(r), Unbounded(r).exc)
            /\ pc[r] \in { "running", "returned" } =>
                  /\ exc[r] = NoExc
                  /\ \A i \in 1..Len(trace[r]) : trace[r][i].ok
            /\ pc[r] = "returned" => result[r] = Some("response")

\* One publish left by a ValueError of its serializer and answered 500,
\* another that ran to its end.
C9_Witness ==
    /\ op["r1"] = "publish" /\ Responded("r1")
    /\ LastCall("r1") = "serialize"
    /\ exc["r1"].cls = "ValueError"
    /\ exc["r1"] = origin["r1"]
    /\ response["r1"].status_code = 500
    /\ op["r2"] = "publish" /\ pc["r2"] = "returned"
    /\ Len(trace["r2"]) = Len(publish_body)

----------------------------------------------------------------------------
(* C10: for a referential_block failure carrying n dependent objects the   *)
(* dependents list of the response is the first min(n, 10) of them, in     *)
(* order: never more than 10, and empty when none is carried.              *)

\* The dependent objects a deletion error carries.
Carried(e) ==
    IF HasAttr(e, "protected_objects") THEN e.protected_objects
    ELSE IF HasAttr(e, "restricted_objects") THEN e.restricted_objects
    ELSE <<>>

Min(a, b) == IF a < b THEN a ELSE b

\* C10: the dependents listed are the first min(n, 10) carried, in order.
C10_DependentsCapped ==
    \A r \in Requests :
        (Responded(r) /\ Kind(exc[r]) = "referential_block") =>
            LET carried == Carried(exc[r])
                listed  == response[r].details[1].value
                n       == Min(Len(carried), 10)
            IN  /\ response[r].details[1].key = "dependents"
                /\ Len(listed) = n
                /\ \A i \in 1..n : listed[i] = StrObj(carried[i])

----------------------------------------------------------------------------
(* C11: the message of a storage failure never depends on the text of the  *)
(* underlying error while SAFE_DB_ERRORS is set: integrity_violation and   *)
(* data_invalid are answered with their fixed generic text when the flag   *)
(* is true and with the raw text only when it is false;                    *)
(* storage_unavailable and storage_error with their fixed generic text     *)
(* under both values of the flag.                                          *)

\* The fixed text of a storage kind.
GenericStorageMessage(k) ==
    CASE k = "integrity_violation" ->
            "A database integrity constraint was violated."
      [] k = "data_invalid" ->
            "The provided data is invalid for the database schema."
      [] k = "storage_unavailable" ->
            "A database operational error occurred. Please try again later."
      [] k = "storage_error" ->
            "An unexpected database error occurred."

\* C11: storage messages are the fixed texts, except for integrity_violation
\* and data_invalid under SAFE_DB_ERRORS = False, which show the raw text.
C11_StorageMessages ==
    \A r \in Requests :
        Responded(r) =>
            LET k == Kind(exc[r]) IN
            /\ k \in { "integrity_violation", "data_invalid" } =>
                  response[r].message =
                      IF Self(r).SAFE_DB_ERRORS THEN GenericStorageMessage(k)
                                                ELSE StrExc(exc[r])
            /\ k \in { "storage_unavailable", "storage_error" } =>
                  response[r].message = GenericStorageMessage(k)

\* The same integrity failure answered under both values of the flag: once
\* with the generic text, once with its own text.
C11_Witness ==
    /\ Classified("r1") /\ Classified("r2")
    /\ exc["r1"] = exc["r2"]
    /\ Kind(exc["r1"]) = "integrity_violation"
    /\ Self("r1").SAFE_DB_ERRORS /\ ~Self("r2").SAFE_DB_ERRORS
    /\ response["r1"].message = GenericStorageMessage("integrity_violation")
    /\ response["r2"].message = StrExc(exc["r2"])
    /\ response["r1"].message # response["r2"].message

----------------------------------------------------------------------------
(* C12: the code of an error response is one-to-one with the failure kind: *)
(* two failures of different named kinds never receive the same code; only *)
(* the codes of the generic/unknown catch-alls may be shared by several    *)
(* causes.                                                                 *)

\* The kinds other than the two catch-alls.
NamedKind(k) == k \notin { "generic_api_error", "unknown" }

\* The kinds that one test of handle_exception answers share one code.
CodeGroup(k) ==
    CASE k \in { "auth_missing", "auth_failed" }               -> "authentication"
      [] k \in { "permission_denied", "core_permission_denied" } -> "permission"
      [] k \in { "not_found", "object_missing" }               -> "missing"
      [] k \in { "bad_request", "suspicious_operation" }       -> "bad_request"
      [] OTHER                                                 -> k

\* C12 as stated: different named kinds, different codes.
C12_Original ==
    \A r1, r2 \in Requests :
        ( /\ Responded(r1) /\ Responded(r2)
          /\ NamedKind(Kind(exc[r1])) /\ NamedKind(Kind(exc[r2]))
          /\ Kind(exc[r1]) # Kind(exc[r2]) )
        => response[r1].code # response[r2].code

\* C12, amended: two failures of named kinds receive the same code exactly
\* when their kinds are answered together (auth_missing with auth_failed,
\* permission_denied with core_permission_denied, not_found with
\* object_missing, bad_request with suspicious_operation) or are equal.
C12_CodePerGroup ==
    \A r1, r2 \in Requests :
        ( /\ Responded(r1) /\ Responded(r2)
          /\ NamedKind(Kind(exc[r1])) /\ NamedKind(Kind(exc[r2])) )
        => ( response[r1].code = response[r2].code
               <=> CodeGroup(Kind(exc[r1])) = CodeGroup(Kind(exc[r2])) )

\* Two kinds answered with one code next to each other.
C12_Witness ==
    /\ Classified("r1") /\ Classified("r2")
    /\ Kind(exc["r1"]) = "auth_missing"
    /\ Kind(exc["r2"]) = "auth_failed"
    /\ response["r1"].code = "authentication_error"
    /\ response["r2"].code = "authentication_error"

----------------------------------------------------------------------------
(* C13: a permission_denied failure raised by the before-destroy hook with *)
(* a custom message is answered with status 403, code permission_denied,   *)
(* details null and a message equal to that exact custom message, for      *)
(* every message.                                                          *)

\* The before-destroy hook of request r vetoed with a permission_denied.
DestroyVetoed(r) ==
    /\ op[r] = "perform_destroy"
    /\ trace[r] = << Failed("before_perform_destroy") >>
    /\ Kind(origin[r]) = "permission_denied"

\* C13: the veto is answered 403 permission_denied with the hook's own text.
C13_VetoMessage ==
    \A r \in Requests :
        (Responded(r) /\ DestroyVetoed(r)) =>
            /\ response[r].status_code = 403
            /\ response[r].code = "permission_denied"
            /\ response[r].details = None
            /\ response[r].message = origin[r].text
            /\ entity[r] = "stored"

\* Two vetoes with two different messages, each answered with its own.
C13_Witness ==
    /\ Responded("r1") /\ DestroyVetoed("r1")
    /\ Responded("r2") /\ DestroyVetoed("r2")
    /\ origin["r1"].text = "You can only delete your own comments."
    /\ origin["r2"].text = "Post matching query does not exist."
    /\ response["r1"].message = "You can only delete your own comments."
    /\ response["r2"].message = "Post matching query does not exist."

----------------------------------------------------------------------------
(* C14: every error response has an HTTP status in                         *)
(* {400, 401, 403, 404, 405, 406, 409, 415, 429, 500, 503}.                *)

StatusesUsed == { 400, 401, 403, 404, 405, 406, 409, 415, 429, 500, 503 }

\* The kinds answered with the status the exception carries.
CarriesStatus(k) == k \in { "auth_missing", "auth_failed", "generic_api_error" }

\* C14 as stated: the status of every error response is one of the eleven.
C14_Original ==
    \A r \in Requests : Responded(r) => response[r].status_code \in StatusesUsed

\* C14, amended: the status is one of the eleven for every kind answered
\* with a fixed status; for the authentication kinds and generic_api_error
\* it is the status the exception carries, whatever it is.
C14_StatusSet ==
    \A r \in Requests :
        Responded(r) =>
            IF CarriesStatus(Kind(exc[r]))
                THEN response[r].status_code = exc[r].status_code
                ELSE response[r].status_code \in StatusesUsed

\* A custom APIException subclass answered with its own status 402, next to
\* a failure of a fixed-status kind.
C14_Witness ==
    /\ Classified("r1") /\ Classified("r2")
    /\ Kind(exc["r1"]) = "generic_api_error"
    /\ exc["r1"].status_code = 402
    /\ response["r1"].status_code = 402
    /\ Kind(exc["r2"]) = "storage_unavailable"
    /\ response["r2"].status_code = 503

----------------------------------------------------------------------------
(* C15: success_response preserves its inputs: the body is exactly         *)
(* {message, data}, with data the payload given, unchanged (null when none *)
(* is given), message the one given ("Success." when none is given), and   *)
(* the status 200 unless another is given.                                 *)

\* Request r was answered by success_response called with keywords kw.
Succeeded(r) == pc[r] = "returned" /\ given[r] # None

\* C15: the envelope carries the data, the message and the status given,
\* and the defaults None, "Success." and 200 for those left out.
C15_SuccessEnvelope ==
    \A r \in Requests :
        Succeeded(r) =>
            LET kw == given[r][1]
                rs == response[r]
            IN  /\ DOMAIN rs.body = { "message", "data" }
                /\ rs.body.data = kw.data
                /\ kw.message # None => rs.body.message = kw.message[1]
                /\ kw.message = None => rs.body.message = "Success."
                /\ kw.status_code # None => rs.status_code = kw.status_code[1]
                /\ kw.status_code = None => rs.status_code = 200

\* One call with a payload, a message and a status of its own, one with
\* nothing given at all.
C15_Witness ==
    /\ Succeeded("r1") /\ Succeeded("r2")
    /\ given["r1"][1] = [ data |-> Some("{}"), message |-> Some("Created."),
                          status_code |-> Some(201) ]
    /\ response["r1"] = [ status_code |-> 201,
                          body |-> [ message |-> "Created.",
                                     data |-> Some("{}") ] ]
    /\ given["r2"][1] = [ data |-> None, message |-> None,
                          status_code |-> None ]
    /\ response["r2"] = [ status_code |-> 200,
                          body |-> [ message |-> "Success.", data |-> None ] ]

----------------------------------------------------------------------------
(* C16: in the list pipeline before_perform_list runs first, on the        *)
(* incoming queryset; the external filter runs exactly once, on the        *)
(* queryset the before hook returned; after_perform_list runs on the       *)
(* filter's result; the pipeline returns what the after hook returned. If  *)
(* the before hook or the filter raises, the after hook never runs.        *)

\* The calls of a list request, in the order claimed.
ListOrder ==
    << "get_queryset", "before_perform_list", "super_filter_queryset",
       "after_perform_list" >>

\* The queryset held once the first n calls have returned.
QuerysetAfter(n) ==
    CASE n = 0 -> None
      [] n = 1 -> Some("get_queryset()")
      [] n = 2 -> Some("before_perform_list(get_queryset())")
      [] n = 3 -> Some("super_filter_queryset(before_perform_list(get_queryset()))")
      [] n = 4 -> Some("after_perform_list(super_filter_queryset(before_perform_list(get_queryset())))")

Returned(t) == { i \in 1..Len(t) : t[i].ok }

\* C16: the calls are made in order, each at most once and none after a
\* failure; each takes the queryset the one before it returned; a list that
\* returns has made all of them and returns the after hook's queryset.
C16_ListPipeline ==
    \A r \in Requests :
        op[r] = "list" =>
            LET t == trace[r] IN
            /\ Len(t) <= 4
            /\ \A i \in 1..Len(t) : t[i].call = ListOrder[i]
            /\ \A i \in 1..Len(t) : ~t[i].ok => (i = Len(t) /\ Escaped(r))
            /\ local[r] = QuerysetAfter(Cardinality(Returned(t)))
            /\ pc[r] = "returned" =>
                  /\ t = [ i \in 1..4 |-> Called(ListOrder[i]) ]
                  /\ result[r] = QuerysetAfter(4)
            /\ Escaped(r) => result[r] = None

\* One list that returned the after hook's queryset, one whose filter
\* raised before the after hook.
C16_Witness ==
    /\ op["r1"] = "list" /\ pc["r1"] = "returned"
    /\ result["r1"] = QuerysetAfter(4)
    /\ op["r2"] = "list" /\ Escaped("r2")
    /\ trace["r2"] = << Called("get_queryset"), Called("before_perform_list"),
                        Failed("super_filter_queryset") >>
    /\ local["r2"] = QuerysetAfter(2)

----------------------------------------------------------------------------
(* C17: retrieve runs get_object first, then before_perform_retrieve, then *)
(* the serialization of the instance, then after_perform_retrieve, and     *)
(* only then returns the response; no save or delete is invoked during a   *)
(* retrieve; if the lookup fails neither hook runs.                        *)

\* The calls of a retrieve, in the order the handler makes them: the
\* serializer is built between the hooks, its data is read on return.
RetrieveOrder ==
    << "get_object", "before_perform_retrieve", "get_serializer",
       "after_perform_retrieve", "serializer_data" >>

\* What holds of every retrieve under either reading of "serialization".
RetrieveFrame(r) ==
    LET t == trace[r] IN
    /\ Len(t) >= 1 => t[1].call = "get_object"
    /\ \A i \in 1..Len(t) : ~t[i].ok => (i = Len(t) /\ Escaped(r))
    /\ \A i \in 1..Len(t) : t[i].call \notin { "save", "delete" }
    /\ entity[r] = "stored"
    /\ (Len(t) >= 1 /\ ~t[1].ok) => t = << Failed("get_object") >>

\* C17 as stated: the instance has been serialized when the after hook runs.
C17_Original ==
    \A r \in Requests :
        op[r] = "retrieve" =>
            /\ RetrieveFrame(r)
            /\ \A i \in At(trace[r], "after_perform_retrieve") :
                  /\ \E j \in 1..(i - 1) : trace[r][j] = Called("before_perform_retrieve")
                  /\ \E j \in 1..(i - 1) : trace[r][j] = Called("serializer_data")

\* C17, amended: the lookup, the before hook, the construction of the
\* serializer, the after hook and the reading of serializer.data happen in
\* this order, none after a failure; the response carries the data read
\* after the after hook returned.
C17_RetrieveOrder ==
    \A r \in Requests :
        op[r] = "retrieve" =>
            LET t == trace[r] IN
            /\ RetrieveFrame(r)
            /\ Len(t) <= 5
            /\ \A i \in 1..Len(t) : t[i].call = RetrieveOrder[i]
            /\ pc[r] = "returned" =>
                  /\ t = [ i \in 1..5 |-> Called(RetrieveOrder[i]) ]
                  /\ response[r] = [ status_code |-> 200,
                                     body |-> "serializer_data()" ]

\* One retrieve answered, one whose serializer.data raised after the after
\* hook had returned.
C17_Witness ==
    /\ op["r1"] = "retrieve" /\ pc["r1"] = "returned"
    /\ response["r1"].body = "serializer_data()"
    /\ op["r2"] = "retrieve" /\ Escaped("r2")
    /\ trace["r2"] = << Called("get_object"), Called("before_perform_retrieve"),
                        Called("get_serializer"),
                        Called("after_perform_retrieve"),
                        Failed("serializer_data") >>

----------------------------------------------------------------------------
(* C18: under any interleaving of requests the only state shared between   *)
(* them is the pair (LOG_REQUESTS, SAFE_DB_ERRORS), which no pipeline      *)
(* step, hook dispatch, safe lookup, error_boundary or handle_exception    *)
(* ever modifies; each request's hook order and outcome is that of the     *)
(* request running alone.                                                  *)

\* Everything request q holds.
Private(q) ==
    << pc[q], op[q], pos[q], trace[q], exc[q], origin[q], response[q],
       result[q], entity[q], local[q], given[q] >>

\* The calls request r has made are the first calls of its handler's body,
\* in the body's order, whatever the other request is doing.
OwnOrder(r) ==
    op[r] \in Handlers =>
        /\ Len(trace[r]) <= Len(BodyOf(op[r]))
        /\ \A i \in 1..Len(trace[r]) : trace[r][i].call = BodyOf(op[r])[i]
        /\ pos[r] = Cardinality(Returned(trace[r])) + 1

\* C18: no step changes the class attributes, every step changes what one
\* request holds and nothing of the other, and every request makes the
\* calls of its own handler in order.
C18_Isolation ==
    /\ [](\A r \in Requests : OwnOrder(r))
    /\ [][ /\ config' = config
           /\ \E r \in Requests :
                 \A q \in Requests \ { r } : Private(q)' = Private(q) ]_vars

\* Two requests of different viewsets in the middle of their handlers at
\* the same time, one with a failure in flight.
C18_Witness ==
    /\ config = DeclaredConfig
    /\ pc["r1"] = "running" /\ op["r1"] = "perform_update" /\ pos["r1"] = 3
    /\ pc["r2"] = "raised" /\ op["r2"] = "perform_destroy"
    /\ trace["r2"] = << Called("before_perform_destroy"), Failed("delete") >>

----------------------------------------------------------------------------
(* C19: in perform_create and perform_update, when the after hook raises,  *)
(* the save has completed and is not undone: the invocation ends with the  *)
(* failure propagating, no instance returned, and the entity saved; in     *)
(* perform_destroy a failing after hook leaves the entity deleted.         *)

\* The after hook of request r's pipeline raised.
AfterHookFailed(r) ==
    /\ op[r] \in Pipelines
    /\ Len(trace[r]) >= 1
    /\ trace[r][Len(trace[r])] = Failed(AfterHook(op[r]))

\* C19: after a failing after hook the save / delete stays done, nothing is
\* returned and the hook's exception is the one that leaves the handler,
\* up to and including the error response.
C19_AfterFailureKeepsEffect ==
    \A r \in Requests :
        AfterHookFailed(r) =>
            /\ Escaped(r)
            /\ result[r] = None
            /\ exc[r] = origin[r]
            /\ \E i \in 1..(Len(trace[r]) - 1) :
                  trace[r][i] = Called(PersistCall(op[r]))
            /\ entity[r] = IF op[r] = "perform_destroy" THEN "deleted"
                                                        ELSE "saved"

\* An update answered with an error while its entity is saved, next to a
\* destroy whose after hook raised with the entity deleted.
C19_Witness ==
    /\ op["r1"] = "perform_update" /\ AfterHookFailed("r1")
    /\ Responded("r1") /\ entity["r1"] = "saved"
    /\ op["r2"] = "perform_destroy" /\ AfterHookFailed("r2")
    /\ pc["r2"] = "raised" /\ entity["r2"] = "deleted"

====
